---- MODULE Spec2Model ----
(***************************************************************************)
(* Model of the document generator (src/main.py): the spreadsheet          *)
(* transformation pipeline process_dataframe, the rendering of its result  *)
(* by convert_excel_to_word, the per-file loop of the conversion tab, and  *)
(* the two "Generate Image + Table Document" handlers of main, and the     *)
(* grid filling of create_image_table_doc (GridSpec).                      *)
(*                                                                         *)
(* Cell values are tagged records [t, n, s]:                               *)
(*   t = "int"    an integer n                                             *)
(*   t = "float"  the binary float n/4 (n counts quarters, all exact)      *)
(*   t = "nan"    the missing value NaN                                    *)
(*   t = "str"    the text s, a sequence of one-character strings          *)
(* A DataFrame is [columns, dtypes, index, rows]: the column labels, the   *)
(* dtype of every column, the row labels and the rows (row-major).         *)
(***************************************************************************)
EXTENDS Integers, Sequences, FiniteSets, TLC

\* ---------------------------------------------------------------- bounds
MaxRows == 2
MaxCols == 3
MaxImages == 2

\* The grid create_image_table_doc is asked for has up to this many rows and
\* columns ("img_rows" allows 1..20, "img_cols" 1..10).
MaxTableRows == 2
MaxTableCols == 2

\* ---------------------------------------------------------------- values
IntV(n) == [t |-> "int", n |-> n, s |-> <<>>]
FltV(q) == [t |-> "float", n |-> q, s |-> <<>>]
NaN == [t |-> "nan", n |-> 0, s |-> <<>>]
StrV(s) == [t |-> "str", n |-> 0, s |-> s]

IsNumber(v) == v.t \in {"int", "float"}

\* The value of a number in quarters.
Quarters(v) == IF v.t = "int" THEN 4 * v.n ELSE v.n

\* Python's == on two cell values, as dict lookup uses it: numbers compare by
\* value (1 == 1.0), texts by content, NaN equals nothing.
PyEq(a, b) ==
    \/ IsNumber(a) /\ IsNumber(b) /\ Quarters(a) = Quarters(b)
    \/ a.t = "str" /\ b.t = "str" /\ a.s = b.s

Abs(n) == IF n < 0 THEN -n ELSE n

RECURSIVE Pow10(_)
Pow10(p) == IF p = 0 THEN 1 ELSE 10 * Pow10(p - 1)

Digits == <<"0", "1", "2", "3", "4", "5", "6", "7", "8", "9">>

RECURSIVE NatText(_)
NatText(n) ==
    IF n < 10 THEN <<Digits[n + 1]>>
    ELSE NatText(n \div 10) \o <<Digits[(n % 10) + 1]>>

\* The digits of n, left-padded with zeros to exactly w digits.
RECURSIVE PadText(_, _)
PadText(n, w) ==
    IF w = 0 THEN <<>> ELSE PadText(n \div 10, w - 1) \o <<Digits[(n % 10) + 1]>>

\* The fractional part of a quarter count as repr() prints it.
FracText(r) ==
    CASE r = 0 -> <<"0">>
      [] r = 1 -> <<"2", "5">>
      [] r = 2 -> <<"5">>
      [] OTHER -> <<"7", "5">>

\* str(x) of a cell value or column label.
PyStr(v) ==
    CASE v.t = "str" -> v.s
      [] v.t = "nan" -> <<"n", "a", "n">>
      [] v.t = "int" -> (IF v.n < 0 THEN <<"-">> ELSE <<>>) \o NatText(Abs(v.n))
      [] OTHER -> (IF v.n < 0 THEN <<"-">> ELSE <<>>)
                  \o NatText(Abs(v.n) \div 4) \o <<".">> \o FracText(Abs(v.n) % 4)

\* float(x) of a number: an integer becomes the equal float.
ToFloat(v) == FltV(Quarters(v))

\* The "," option of the format mini-language: a comma every three digits.
RECURSIVE GroupThousands(_)
GroupThousands(ds) ==
    IF Len(ds) <= 3 THEN ds
    ELSE GroupThousands(SubSeq(ds, 1, Len(ds) - 3)) \o <<",">>
         \o SubSeq(ds, Len(ds) - 2, Len(ds))

\* |q|/4 * 10^p rounded to an integer, ties to even (the float is exact).
RoundHalfEven(q, p) ==
    LET a == Abs(q) * Pow10(p)
        m == a \div 4
        r == a % 4
    IN  IF r > 2 \/ (r = 2 /\ m % 2 = 1) THEN m + 1 ELSE m

\* f"{float(x):,.{p}f}"
FormatFixed(v, p) ==
    LET q == Quarters(v)
        m == RoundHalfEven(q, p)
    IN  (IF q < 0 THEN <<"-">> ELSE <<>>)
        \o GroupThousands(NatText(m \div Pow10(p)))
        \o (IF p > 0 THEN <<".">> \o PadText(m % Pow10(p), p) ELSE <<>>)

\* text.replace(old, new) for one-character old and new.
ReplaceChar(text, old, new) ==
    [i \in 1..Len(text) |-> IF text[i] = old THEN new ELSE text[i]]

\* Faulty variant: the decimal point is left as it is.
RoundCellPoint(v, p) ==
    IF v.t # "nan" THEN StrV(FormatFixed(v, p)) ELSE StrV(<<"-">>)

\* The lambda of the rounding step (lines 45-46).
RoundCell(v, p) ==
    IF v.t # "nan" THEN StrV(ReplaceChar(FormatFixed(v, p), ".", ","))
    ELSE StrV(<<"-">>)

\* ------------------------------------------------------------ DataFrames
EmptyDF == [columns |-> <<>>, dtypes |-> <<>>, index |-> <<>>, rows |-> <<>>]

NRows(df) == Len(df.rows)
NCols(df) == Len(df.columns)

Max(a, b) == IF a > b THEN a ELSE b
Min(a, b) == IF a < b THEN a ELSE b

Column(df, j) == [i \in 1..NRows(df) |-> df.rows[i][j]]

\* The positions of keep, in increasing order, among 1..j.
RECURSIVE Positions(_, _)
Positions(j, keep) ==
    IF j = 0 THEN <<>>
    ELSE Positions(j - 1, keep) \o (IF j \in keep THEN <<j>> ELSE <<>>)

Take(seq, pos) == [k \in 1..Len(pos) |-> seq[pos[k]]]

\* Faulty variant: iloc[n:]: the rows are taken off the wrong end.
ILocDropFirst(df, n) ==
    LET start == Min(n, NRows(df)) + 1
    IN  [df EXCEPT !.index = SubSeq(@, start, NRows(df)),
                   !.rows = SubSeq(@, start, NRows(df))]

\* Faulty variant: a count above the number of rows leaves the table alone.
ILocDropLastGuarded(df, n) ==
    IF n > NRows(df) THEN df
    ELSE [df EXCEPT !.index = SubSeq(@, 1, NRows(df) - n),
                    !.rows = SubSeq(@, 1, NRows(df) - n)]

\* processed_df.iloc[:-n] for n > 0: the stop of the slice is len - n, and a
\* stop before the start gives the empty slice.
ILocDropLast(df, n) ==
    LET stop == Max(NRows(df) - n, 0)
    IN  [df EXCEPT !.index = SubSeq(@, 1, stop), !.rows = SubSeq(@, 1, stop)]

\* Faulty variant: columns[start_col:end_col]: the start is taken as 0-based.
ColumnSliceZeroBased(df, start_col, end_col) ==
    {df.columns[j] : j \in {k \in 1..NCols(df) : start_col + 1 <= k /\ k <= end_col}}

\* processed_df.columns[start_col - 1:end_col]: the labels at the 1-based
\* positions start_col..end_col, the slice clamped to the columns there are.
ColumnSlice(df, start_col, end_col) ==
    {df.columns[j] : j \in {k \in 1..NCols(df) : start_col <= k /\ k <= end_col}}

\* processed_df.drop(labels, axis=1): every column whose label is one of labels
\* goes.
DropLabels(df, labels) ==
    LET keep == {j \in 1..NCols(df) : \A l \in labels : ~PyEq(df.columns[j], l)}
        pos == Positions(NCols(df), keep)
    IN  [df EXCEPT !.columns = Take(@, pos),
                   !.dtypes = Take(@, pos),
                   !.rows = [i \in 1..NRows(df) |-> Take(df.rows[i], pos)]]

\* sub_dict is a sequence of [k, v] pairs with distinct keys.
DictHas(d, x) == \E i \in 1..Len(d) : PyEq(d[i].k, x)

\* Faulty variant: the lookup goes by the text of the value: 1 finds the key "1".
DictGetByText(d, x, default) ==
    IF \E i \in 1..Len(d) : PyStr(d[i].k) = PyStr(x)
    THEN d[CHOOSE i \in 1..Len(d) : PyStr(d[i].k) = PyStr(x)].v
    ELSE default

\* sub_dict.get(x, default)
DictGet(d, x, default) ==
    IF DictHas(d, x) THEN d[CHOOSE i \in 1..Len(d) : PyEq(d[i].k, x)].v
    ELSE default

\* The dtype pandas infers for a column of objects (lib.map_infer).
InferDtype(vals) ==
    IF \E i \in 1..Len(vals) : vals[i].t = "str" THEN "object"
    ELSE IF \E i \in 1..Len(vals) : vals[i].t \in {"float", "nan"} THEN "float64"
    ELSE IF Len(vals) > 0 THEN "int64"
    ELSE "object"

\* A value as a column of the given dtype stores it.
StoreAs(v, dtype) == IF dtype = "float64" /\ v.t = "int" THEN ToFloat(v) ELSE v

\* Lines 37-39: the labels become text, then exact matches are replaced.
SubstituteHeaders(columns, d) ==
    [j \in 1..Len(columns) |->
        DictGet(d, StrV(PyStr(columns[j])), StrV(PyStr(columns[j])))]

\* Line 41: applymap(lambda x: sub_dict.get(x, x)); every column's dtype is
\* inferred again from the mapped values.
ApplyMap(df, d) ==
    LET mapped == [i \in 1..NRows(df) |->
                     [j \in 1..NCols(df) |-> DictGet(d, df.rows[i][j], df.rows[i][j])]]
        dt == [j \in 1..NCols(df) |->
                 InferDtype([i \in 1..NRows(df) |-> mapped[i][j]])]
    IN  [df EXCEPT !.dtypes = dt,
                   !.rows = [i \in 1..NRows(df) |->
                               [j \in 1..NCols(df) |-> StoreAs(mapped[i][j], dt[j])]]]

IsNumericDtype(dtype) == dtype \in {"int64", "float64"}

\* Lines 43-47: every column of a numeric dtype is formatted cell by cell.
RoundColumns(df, p) ==
    [df EXCEPT !.dtypes = [j \in 1..NCols(df) |->
                             IF IsNumericDtype(df.dtypes[j]) THEN "object" ELSE df.dtypes[j]],
               !.rows = [i \in 1..NRows(df) |->
                           [j \in 1..NCols(df) |->
                              IF IsNumericDtype(df.dtypes[j])
                              THEN RoundCell(df.rows[i][j], p)
                              ELSE df.rows[i][j]]]]

\* The values line 48 replaces: np.nan and the texts 'nan', 'NaN', 'NaT'.
MissingTexts == {<<"n", "a", "n">>, <<"N", "a", "N">>, <<"N", "a", "T">>}

IsMissingMarker(v) == v.t = "nan" \/ (v.t = "str" /\ v.s \in MissingTexts)

Dash == StrV(<<"-">>)

\* Faulty variant: np.nan is left out of the list.
ReplaceMissingTexts(df) ==
    [df EXCEPT !.rows = [i \in 1..NRows(df) |->
                           [j \in 1..NCols(df) |->
                              IF df.rows[i][j].t = "str" /\ df.rows[i][j].s \in MissingTexts
                              THEN Dash ELSE df.rows[i][j]]]]

\* Faulty variant: the markers are replaced by the text "NaN".
ReplaceMissingByNaNText(df) ==
    [df EXCEPT !.rows = [i \in 1..NRows(df) |->
                           [j \in 1..NCols(df) |->
                              IF IsMissingMarker(df.rows[i][j]) THEN StrV(<<"N", "a", "N">>)
                              ELSE df.rows[i][j]]]]

\* Line 48: replace([np.nan, 'nan', 'NaN', 'NaT'], '-'). A column that gets a
\* "-" holds objects afterwards.
ReplaceMissing(df) ==
    [df EXCEPT !.dtypes = [j \in 1..NCols(df) |->
                             IF \E i \in 1..NRows(df) : IsMissingMarker(df.rows[i][j])
                             THEN "object" ELSE df.dtypes[j]],
               !.rows = [i \in 1..NRows(df) |->
                           [j \in 1..NCols(df) |->
                              IF IsMissingMarker(df.rows[i][j]) THEN Dash
                              ELSE df.rows[i][j]]]]

\* remove_last_n_rows: 0 stands for None (and for 0: both are falsy).
TrimRows(df, n) == IF n > 0 THEN ILocDropLast(df, n) ELSE df

\* Faulty variant: the drop is skipped for a table without rows.
DropColumnsWhenRows(df, rc) ==
    IF rc # <<>> /\ NRows(df) > 0
    THEN DropLabels(df, ColumnSlice(df, rc[1], rc[2])) ELSE df

\* remove_cols: <<>> stands for None, else <<start_col, end_col>>.
DropColumns(df, rc) ==
    IF rc # <<>> THEN DropLabels(df, ColumnSlice(df, rc[1], rc[2])) ELSE df

\* An empty dict is falsy: then the labels are not even turned into text.
Substitute(df, d) ==
    IF d # <<>> THEN ApplyMap([df EXCEPT !.columns = SubstituteHeaders(@, d)], d)
    ELSE df

\* round_decimals: -1 stands for None.
RoundNumbers(df, p) == IF p # -1 THEN RoundColumns(df, p) ELSE df

process_dataframe(df, d, n, rc, p) ==
    ReplaceMissing(RoundNumbers(Substitute(DropColumns(TrimRows(df, n), rc), d), p))

\* ------------------------------------------------------------- documents
EmptyDoc == [header |-> <<>>, rows |-> <<>>]

\* df.iterrows() builds every row from df.values, one array of one dtype: int64
\* and float64 columns together make float64, so the integers come out as floats.
RowValue(df, v) ==
    IF /\ \A j \in 1..NCols(df) : IsNumericDtype(df.dtypes[j])
       /\ \E j \in 1..NCols(df) : df.dtypes[j] = "float64"
       /\ IsNumber(v)
    THEN ToFloat(v) ELSE v

\* The table of the document: one header row of str(column), then one row per
\* DataFrame row of str(value).
convert_excel_to_word(df) ==
    [header |-> [j \in 1..NCols(df) |-> PyStr(df.columns[j])],
     rows |-> [i \in 1..NRows(df) |->
                 [j \in 1..NCols(df) |-> PyStr(RowValue(df, df.rows[i][j]))]]]

\* ------------------------------------------------------ inputs (bounded)
\* The tables pd.read_excel can load are drawn from a catalogue of columns.
\* Every column has the dtype read_excel gives it: int64 when all its cells are
\* integers, float64 when all are numbers or empty, object when a text is among
\* them. Labels are unique (read_excel makes them so).
ColumnKinds == {"int", "float", "mixed"}

KindCell(kind, i) ==
    CASE kind = "int" -> (IF i = 1 THEN IntV(1000) ELSE IntV(i - 1))
      [] kind = "float" ->
            (IF i = 1 THEN FltV(4938) ELSE IF i = 2 THEN NaN ELSE FltV(2 - i))
      [] OTHER ->
            (IF i = 1 THEN StrV(<<"x">>) ELSE IF i = 2 THEN IntV(1) ELSE FltV(10))

KindDtype(kind) ==
    CASE kind = "int" -> "int64"
      [] kind = "float" -> "float64"
      [] OTHER -> "object"

Header(j) ==
    CASE j = 1 -> StrV(<<"A">>)
      [] j = 2 -> IntV(1)
      [] j = 3 -> StrV(<<"B">>)
      [] OTHER -> StrV(<<"C">> \o NatText(j))

MakeTable(R, kinds) ==
    [columns |-> [j \in 1..Len(kinds) |-> Header(j)],
     dtypes |-> [j \in 1..Len(kinds) |-> IF R = 0 THEN "object" ELSE KindDtype(kinds[j])],
     index |-> [i \in 1..R |-> i - 1],
     rows |-> [i \in 1..R |-> [j \in 1..Len(kinds) |-> KindCell(kinds[j], i)]]]

LoadedTables ==
    {MakeTable(R, kinds) :
        R \in 0..MaxRows, kinds \in UNION {[1..C -> ColumnKinds] : C \in 1..MaxCols}}

Pair(k, v) == [k |-> k, v |-> v]

\* The substitution maps load_substitution_rules can return.
SubA == <<Pair(StrV(<<"A">>), StrV(<<"A", "l", "p", "h", "a">>)),
          Pair(IntV(1), StrV(<<"o", "n", "e">>)),
          Pair(StrV(<<"A", "B">>), StrV(<<"n", "o">>))>>

SubB == <<Pair(StrV(<<"1">>), StrV(<<"u", "n", "o">>)),
          Pair(StrV(<<"x">>), IntV(7)),
          Pair(IntV(1000), StrV(<<"n", "a", "n">>))>>

SubDicts == {<<>>, SubA, SubB}

\* A batch of uploads: "xlsx" is a readable spreadsheet, "corrupt" a file
\* pd.read_excel raises on.
Batches == {<<"corrupt">>, <<"xlsx", "corrupt", "xlsx">>}

\* The widgets of lines 231-241; the ranges are cut to the model's tables.
RowCounts == 0..(MaxRows + 1)
ColRanges == {<<>>} \cup {<<a, b>> : a \in 1..MaxCols, b \in 1..MaxCols}
Decimals == {-1, 0, 2}

\* An uploaded image: its file name (base and extension) and whether PIL can
\* decode it. A companion document: its file name and what python-docx finds:
\* "table" (at least one table), "notable" (none), "corrupt" (Document raises).
ImagePool == {[base |-> b, ext |-> "png", decodable |-> d] :
                 b \in {"chart1", "chart2"}, d \in BOOLEAN}

TablePool ==
    {[base |-> b, ext |-> "docx", content |-> c] :
        b \in {"chart1", "chart2"}, c \in {"table", "notable", "corrupt"}}
    \cup {[base |-> "Chart1", ext |-> "docx", content |-> "table"]}

SeqsUpTo(S, n) == UNION {[1..k -> S] : k \in 1..n}

\* os.path.splitext(name)[0]
BaseName(f) == f.base

\* ----------------------------------------------------------------- state
VARIABLES
    data_files,           \* the uploaded spreadsheets
    sub_dict,             \* the substitution map of the batch
    remove_last_n_rows,   \* n_rows if remove_rows else None (0)
    remove_cols,          \* col_range if remove_cols else None (<<>>)
    round_decimals,       \* round_decimals if round_enabled else None (-1)
    file_idx,             \* position of the for loop of line 243
    pc,                   \* position inside the loop body
    original_df,          \* the table read from the current file
    processed_df,         \* process_dataframe's working copy
    doc,                  \* the table of the document convert_excel_to_word built
    outputs,              \* per file: what the page shows for it
    tab2_images,          \* the images of the "image_uploader" widget
    image_files,          \* the images of the "image_table_uploader" widget
    table_files,          \* the documents of the "table_uploader" widget
    show_filename,        \* the caption checkbox
    button,               \* the button whose handler is running or has run
    run_pc,               \* "idle", "running", or "shown" (the run is over)
    img_idx,              \* position of the handler's loop over the images
    doc_rows,             \* the image rows of the document under construction
    tmp_files,            \* the staging files that exist on disk
    messages,             \* st.warning / st.error / st.success shown by this run
    download,             \* whether this run offers the document for download
    table_rows,           \* create_image_table_doc's argument table_rows
    table_cols,           \* create_image_table_doc's argument table_cols
    img_table,            \* the cells of img_table, row by row
    img_count,            \* the counter of line 99
    grid_i,               \* i of the loop of line 100
    grid_j,               \* j of the loop of line 101
    grid_pc               \* where the call of create_image_table_doc stands

conv_vars == <<data_files, sub_dict, remove_last_n_rows, remove_cols, round_decimals,
               file_idx, pc, original_df, processed_df, doc, outputs>>

uploads == <<tab2_images, image_files, table_files, show_filename>>

img_vars == <<uploads, button, run_pc, img_idx, doc_rows, tmp_files, messages, download>>

grid_vars == <<table_rows, table_cols, img_table, img_count, grid_i, grid_j, grid_pc>>

vars == <<conv_vars, img_vars, grid_vars>>

options == <<data_files, sub_dict, remove_last_n_rows, remove_cols, round_decimals>>

ConvInit ==
    /\ data_files \in Batches
    /\ sub_dict \in SubDicts
    /\ remove_last_n_rows \in RowCounts
    /\ remove_cols \in {rc \in ColRanges : rc = <<>> \/ rc[1] <= rc[2]}
    /\ round_decimals \in Decimals
    /\ file_idx = 1
    /\ pc = "loop"
    /\ original_df = EmptyDF
    /\ processed_df = EmptyDF
    /\ doc = EmptyDoc
    /\ outputs = <<>>

\* ---------------------------------------------- conversion tab, per file
\* Line 245 and line 29: the file is read and process_dataframe copies it.
ReadExcel ==
    /\ pc = "loop"
    /\ file_idx <= Len(data_files)
    /\ data_files[file_idx] = "xlsx"
    /\ \E t \in LoadedTables :
          /\ original_df' = t
          /\ processed_df' = t
    /\ pc' = "copied"
    /\ UNCHANGED <<grid_vars, options, file_idx, doc, outputs, img_vars>>

\* Lines 265-266: read_excel raised; the message names the file, the loop goes on.
ReadExcelFails ==
    /\ pc = "loop"
    /\ file_idx <= Len(data_files)
    /\ data_files[file_idx] = "corrupt"
    /\ outputs' = Append(outputs, [file |-> file_idx, kind |-> "error"])
    /\ file_idx' = file_idx + 1
    /\ UNCHANGED <<grid_vars, options, pc, original_df, processed_df, doc, img_vars>>

\* Lines 30-31.
TrimStep ==
    /\ pc = "copied"
    /\ processed_df' = TrimRows(processed_df, remove_last_n_rows)
    /\ pc' = "trimmed"
    /\ UNCHANGED <<grid_vars, options, file_idx, original_df, doc, outputs, img_vars>>

\* Lines 32-35.
DropStep ==
    /\ pc = "trimmed"
    /\ processed_df' = DropColumns(processed_df, remove_cols)
    /\ pc' = "dropped"
    /\ UNCHANGED <<grid_vars, options, file_idx, original_df, doc, outputs, img_vars>>

\* Lines 36-41.
SubstituteStep ==
    /\ pc = "dropped"
    /\ processed_df' = Substitute(processed_df, sub_dict)
    /\ pc' = "substituted"
    /\ UNCHANGED <<grid_vars, options, file_idx, original_df, doc, outputs, img_vars>>

\* Faulty variant: the column assignment of line 44 also lands in the table
\* the caller passed in.
RoundStepInPlace ==
    /\ pc = "substituted"
    /\ processed_df' = RoundNumbers(processed_df, round_decimals)
    /\ original_df' = processed_df'
    /\ pc' = "rounded"
    /\ UNCHANGED <<grid_vars, options, file_idx, doc, outputs, img_vars>>

\* Lines 42-47.
RoundStep ==
    /\ pc = "substituted"
    /\ processed_df' = RoundNumbers(processed_df, round_decimals)
    /\ pc' = "rounded"
    /\ UNCHANGED <<grid_vars, options, file_idx, original_df, doc, outputs, img_vars>>

\* Lines 48-49: the last step, and the return.
ReplaceStep ==
    /\ pc = "rounded"
    /\ processed_df' = ReplaceMissing(processed_df)
    /\ pc' = "returned"
    /\ UNCHANGED <<grid_vars, options, file_idx, original_df, doc, outputs, img_vars>>

\* Line 257.
ConvertStep ==
    /\ pc = "returned"
    /\ doc' = convert_excel_to_word(processed_df)
    /\ pc' = "converted"
    /\ UNCHANGED <<grid_vars, options, file_idx, original_df, processed_df, outputs, img_vars>>

\* Lines 258-264: the document is offered for download and the loop goes on to
\* the next file; the locals of this iteration are dead from here.
DownloadStep ==
    /\ pc = "converted"
    /\ outputs' = Append(outputs, [file |-> file_idx, kind |-> "download"])
    /\ file_idx' = file_idx + 1
    /\ original_df' = EmptyDF
    /\ processed_df' = EmptyDF
    /\ doc' = EmptyDoc
    /\ pc' = "loop"
    /\ UNCHANGED <<grid_vars, options, img_vars>>

\* No spreadsheet is uploaded: "if data_files:" (line 221) skips the tab.
ConvIdle ==
    /\ data_files = <<>>
    /\ sub_dict = <<>>
    /\ remove_last_n_rows = 0
    /\ remove_cols = <<>>
    /\ round_decimals = -1
    /\ file_idx = 1
    /\ pc = "loop"
    /\ original_df = EmptyDF
    /\ processed_df = EmptyDF
    /\ doc = EmptyDoc
    /\ outputs = <<>>

\* ------------------------------------------------------------ image tabs
ImgFresh ==
    /\ button = "none"
    /\ run_pc = "idle"
    /\ img_idx = 1
    /\ doc_rows = <<>>
    /\ tmp_files = {}
    /\ messages = <<>>
    /\ download = FALSE

ImgIdle ==
    /\ tab2_images = <<>>
    /\ image_files = <<>>
    /\ table_files = <<>>
    /\ show_filename = FALSE
    /\ ImgFresh

ImgInit ==
    /\ \/ /\ tab2_images \in SeqsUpTo(ImagePool, MaxImages)
          /\ image_files = <<>>
          /\ table_files = <<>>
       \/ /\ tab2_images \in {<<>>, <<[base |-> "chart1", ext |-> "png", decodable |-> TRUE]>>}
          /\ image_files \in SeqsUpTo(ImagePool, MaxImages)
          /\ table_files \in SeqsUpTo(TablePool, 2)
    /\ show_filename \in BOOLEAN
    /\ ImgFresh

\* Line 433: {splitext(f.name)[0]: f for f in table_files}; a later file of the
\* same base name replaces an earlier one.
InMapping(name) == \E k \in 1..Len(table_files) : BaseName(table_files[k]) = name

table_mapping(name) ==
    LET k == CHOOSE k \in 1..Len(table_files) :
                /\ BaseName(table_files[k]) = name
                /\ \A m \in (k + 1)..Len(table_files) : BaseName(table_files[m]) # name
    IN  table_files[k]

\* Line 447: image_files[:5]
PreviewLimit == 5

Msg(kind, about) == [kind |-> kind, about |-> about]

DocRow(image, caption, right) == [image |-> image, caption |-> caption, right |-> right]

\* add_image_to_cell's caption (lines 60-65).
Caption(name) == IF show_filename THEN name ELSE ""

\* The tab of lines 431-595 shows its buttons when both uploads are there.
Tab3Visible == image_files # <<>> /\ table_files # <<>>

\* Lines 445-472: per previewed image, nothing to report, st.error when the
\* companion cannot be opened, st.warning when there is none.
PreviewMessage(f) ==
    IF InMapping(BaseName(f))
    THEN IF table_mapping(BaseName(f)).content = "corrupt"
         THEN <<Msg("error", BaseName(f))>> ELSE <<>>
    ELSE <<Msg("warning", BaseName(f))>>

RECURSIVE PreviewMessages(_)
PreviewMessages(files) ==
    IF files = <<>> THEN <<>>
    ELSE PreviewMessage(Head(files)) \o PreviewMessages(Tail(files))

\* A button press starts a new run of the script: what the last run showed is
\* gone, files on disk stay.
PreviewTab3 ==
    /\ Tab3Visible
    /\ run_pc \in {"idle", "shown"}
    /\ button' = "preview3"
    /\ messages' = PreviewMessages(SubSeq(image_files, 1, Min(PreviewLimit, Len(image_files))))
    /\ run_pc' = "shown"
    /\ img_idx' = 1
    /\ doc_rows' = <<>>
    /\ download' = FALSE
    /\ UNCHANGED <<grid_vars, conv_vars, uploads, tmp_files>>

\* Line 475. The button has the key of the button of line 312: when line 312
\* ran in this script run (tab2_images is not empty) streamlit raises
\* DuplicateWidgetID here, and the button is never there to press.
GenerateTab3 ==
    /\ Tab3Visible
    /\ tab2_images = <<>>
    /\ run_pc \in {"idle", "shown"}
    /\ button' = "generate3"
    /\ run_pc' = "running"
    /\ img_idx' = 1
    /\ doc_rows' = <<>>
    /\ messages' = <<>>
    /\ download' = FALSE
    /\ UNCHANGED <<grid_vars, conv_vars, uploads, tmp_files>>

InTab3Loop ==
    /\ button = "generate3"
    /\ run_pc = "running"
    /\ img_idx <= Len(image_files)

\* Line 486, the branch not taken: no companion of that base name, nothing is
\* added to the document and nothing is shown.
Tab3Skip ==
    /\ InTab3Loop
    /\ ~InMapping(BaseName(image_files[img_idx]))
    /\ img_idx' = img_idx + 1
    /\ UNCHANGED <<grid_vars, conv_vars, uploads, button, run_pc, doc_rows, tmp_files, messages, download>>

\* Lines 525-575: the right cell. The first table of the companion is copied;
\* a companion without tables leaves the cell as it is; an exception puts
\* "Error loading table: ..." into the cell.
RightCell(companion) ==
    CASE companion.content = "table" -> "table"
      [] companion.content = "corrupt" -> "error"
      [] OTHER -> "empty"

\* Lines 487-578 for an image PIL decodes: the staging file is written, embedded
\* and unlinked, then the right cell is filled.
Tab3Image ==
    /\ InTab3Loop
    /\ InMapping(BaseName(image_files[img_idx]))
    /\ image_files[img_idx].decodable
    /\ doc_rows' = Append(doc_rows,
                          DocRow(BaseName(image_files[img_idx]),
                                 Caption(BaseName(image_files[img_idx])),
                                 RightCell(table_mapping(BaseName(image_files[img_idx])))))
    /\ img_idx' = img_idx + 1
    /\ UNCHANGED <<grid_vars, conv_vars, uploads, button, run_pc, tmp_files, messages, download>>

\* Lines 516-518 raise (Image.open): the staging file was made with
\* delete=False and line 521 is not reached; the handler of line 594 shows the
\* error and the run ends there.
Tab3ImageFails ==
    /\ InTab3Loop
    /\ InMapping(BaseName(image_files[img_idx]))
    /\ ~image_files[img_idx].decodable
    /\ doc_rows' = Append(doc_rows, DocRow("", "", "empty"))
    /\ tmp_files' = tmp_files \cup {<<"generate3", img_idx>>}
    /\ messages' = <<Msg("error", "document")>>
    /\ run_pc' = "shown"
    /\ UNCHANGED <<grid_vars, conv_vars, uploads, button, img_idx, download>>

\* Lines 580-592.
Tab3Finish ==
    /\ button = "generate3"
    /\ run_pc = "running"
    /\ img_idx > Len(image_files)
    /\ messages' = <<Msg("success", "document")>>
    /\ download' = TRUE
    /\ run_pc' = "shown"
    /\ UNCHANGED <<grid_vars, conv_vars, uploads, button, img_idx, doc_rows, tmp_files>>

\* Line 312, in the Image Table Generator tab: one table of len(image_files)
\* rows and two columns (line 322).
GenerateTab2 ==
    /\ tab2_images # <<>>
    /\ run_pc \in {"idle", "shown"}
    /\ button' = "generate2"
    /\ run_pc' = "running"
    /\ img_idx' = 1
    /\ doc_rows' = [k \in 1..Len(tab2_images) |-> DocRow("", "", "empty")]
    /\ messages' = <<>>
    /\ download' = FALSE
    /\ UNCHANGED <<grid_vars, conv_vars, uploads, tmp_files>>

\* Lines 343-366 for the first image: it is staged and embedded, then line 366
\* reads table_width_cm, a local of main that is assigned only at line 440,
\* later in the same run: UnboundLocalError, caught at line 416.
Tab2Image ==
    /\ button = "generate2"
    /\ run_pc = "running"
    /\ tab2_images[img_idx].decodable
    /\ doc_rows' = [doc_rows EXCEPT ![img_idx] =
                       DocRow(BaseName(tab2_images[img_idx]),
                              Caption(BaseName(tab2_images[img_idx])), "empty")]
    /\ messages' = <<Msg("error", "document")>>
    /\ run_pc' = "shown"
    /\ UNCHANGED <<grid_vars, conv_vars, uploads, button, img_idx, tmp_files, download>>

\* Lines 357-359 raise: the staging file stays, line 416 shows the error.
Tab2ImageFails ==
    /\ button = "generate2"
    /\ run_pc = "running"
    /\ ~tab2_images[img_idx].decodable
    /\ tmp_files' = tmp_files \cup {<<"generate2", img_idx>>}
    /\ messages' = <<Msg("error", "document")>>
    /\ run_pc' = "shown"
    /\ UNCHANGED <<grid_vars, conv_vars, uploads, button, img_idx, doc_rows, download>>

\* ------------------------------------------------ create_image_table_doc
\* The function is defined at lines 68-113; main never calls it (the generate
\* button of the Image Table Generator tab runs lines 313-417), so it is
\* modelled as a call of its own, with its arguments drawn from what the
\* widgets of lines 269-293 allow.
EmptyCell == [picture |-> -1, caption |-> ""]

\* No call of create_image_table_doc is under way.
GridIdle ==
    /\ table_rows = 1
    /\ table_cols = 1
    /\ img_table = <<>>
    /\ img_count = 0
    /\ grid_i = 0
    /\ grid_j = 0
    /\ grid_pc = "idle"

\* The arguments of a call.
GridInit ==
    /\ ConvIdle
    /\ tab2_images = <<>>
    /\ table_files = <<>>
    /\ ImgFresh
    /\ image_files \in {<<>>} \cup SeqsUpTo(ImagePool, MaxImages)
    /\ show_filename \in BOOLEAN
    /\ table_rows \in 1..MaxTableRows
    /\ table_cols \in 1..MaxTableCols
    /\ img_table = <<>>
    /\ img_count = 0
    /\ grid_i = 0
    /\ grid_j = 0
    /\ grid_pc = "entry"

\* Faulty variant: the loops are nested the other way round, the grid is
\* filled column by column.
NextCellColumnMajor(a, b) ==
    IF a + 1 < table_rows THEN <<a + 1, b>>
    ELSE IF b + 1 < table_cols THEN <<0, b + 1>> ELSE <<table_rows, 0>>

\* Lines 100-101: for i in range(table_rows): for j in range(table_cols).
\* The cell visited after (a, b); <<table_rows, 0>> when the loops are over.
NextCell(a, b) == IF b + 1 < table_cols THEN <<a, b + 1>> ELSE <<a + 1, 0>>

\* Lines 71-99: the document, its table of table_rows x table_cols bordered
\* cells, and img_count = 0.
GridCreate ==
    /\ grid_pc = "entry"
    /\ img_table' = [r \in 1..table_rows |-> [c \in 1..table_cols |-> EmptyCell]]
    /\ img_count' = 0
    /\ grid_i' = 0
    /\ grid_j' = 0
    /\ grid_pc' = "loop"
    /\ UNCHANGED <<conv_vars, img_vars, table_rows, table_cols>>

InGridLoop == grid_pc = "loop" /\ grid_i < table_rows

\* Lines 102-112 for an image PIL decodes: it is staged, embedded in cell
\* (i, j) with its caption (add_image_to_cell, lines 53-65), the staging file
\* is unlinked and the counter goes up.
GridPlace ==
    /\ InGridLoop
    /\ img_count < Len(image_files)
    /\ image_files[img_count + 1].decodable
    /\ img_table' = [img_table EXCEPT ![grid_i + 1][grid_j + 1] =
                        [picture |-> img_count,
                         caption |-> Caption(BaseName(image_files[img_count + 1]))]]
    /\ img_count' = img_count + 1
    /\ grid_i' = NextCell(grid_i, grid_j)[1]
    /\ grid_j' = NextCell(grid_i, grid_j)[2]
    /\ UNCHANGED <<conv_vars, img_vars, table_rows, table_cols, grid_pc>>

\* Line 107 raises: the exception leaves the function, the staging file of
\* line 106 (delete=False) is never unlinked and no document is returned.
GridPlaceFails ==
    /\ InGridLoop
    /\ img_count < Len(image_files)
    /\ ~image_files[img_count + 1].decodable
    /\ tmp_files' = tmp_files \cup {<<"create_image_table_doc", img_count>>}
    /\ grid_pc' = "raised"
    /\ UNCHANGED <<conv_vars, uploads, button, run_pc, img_idx, doc_rows, messages,
                   download, table_rows, table_cols, img_table, img_count,
                   grid_i, grid_j>>

\* Line 102 is false: every image is placed already, the cell stays empty.
GridSkipCell ==
    /\ InGridLoop
    /\ img_count >= Len(image_files)
    /\ grid_i' = NextCell(grid_i, grid_j)[1]
    /\ grid_j' = NextCell(grid_i, grid_j)[2]
    /\ UNCHANGED <<conv_vars, img_vars, table_rows, table_cols, img_table,
                   img_count, grid_pc>>

\* Line 113.
GridReturn ==
    /\ grid_pc = "loop"
    /\ grid_i >= table_rows
    /\ grid_pc' = "returned"
    /\ UNCHANGED <<conv_vars, img_vars, table_rows, table_cols, img_table,
                   img_count, grid_i, grid_j>>

\* ---------------------------------------------------------- specification
Init ==
    /\ \/ ConvInit /\ ImgIdle
       \/ ConvIdle /\ ImgInit
    /\ GridIdle

Next ==
    \/ ReadExcel
    \/ ReadExcelFails
    \/ TrimStep
    \/ DropStep
    \/ SubstituteStep
    \/ RoundStep
    \/ ReplaceStep
    \/ ConvertStep
    \/ DownloadStep
    \/ PreviewTab3
    \/ GenerateTab3
    \/ Tab3Skip
    \/ Tab3Image
    \/ Tab3ImageFails
    \/ Tab3Finish
    \/ GenerateTab2
    \/ Tab2Image
    \/ Tab2ImageFails

Spec == Init /\ [][Next]_vars

\* One call of create_image_table_doc.
GridNext ==
    \/ GridCreate
    \/ GridPlace
    \/ GridPlaceFails
    \/ GridSkipCell
    \/ GridReturn

GridSpec == GridInit /\ [][GridNext]_vars

\* ================================================================ claims
\* What the claims read off the state.
\* The trim count and column range as the claims count them.
n_removed == remove_last_n_rows

RangeGiven == remove_cols # <<>>

RangeStart == remove_cols[1]

RangeEnd == remove_cols[2]

RangeInBounds ==
    RangeGiven /\ 1 <= RangeStart /\ RangeStart <= RangeEnd
    /\ RangeEnd <= NCols(original_df)

\* seq without its positions a..b.
Without(seq, a, b) == SubSeq(seq, 1, a - 1) \o SubSeq(seq, b + 1, Len(seq))

\* C1: for 1 <= n <= (row count) the trailing-row trim leaves exactly
\* (row count - n) rows, the first (row count - n) rows of the table in their
\* original order; for n zero or absent the rows are unchanged.
C1_TrimKeepsLeadingRows ==
    pc = "trimmed" =>
        /\ (1 <= n_removed /\ n_removed <= NRows(original_df)) =>
              /\ NRows(processed_df) = NRows(original_df) - n_removed
              /\ \A i \in 1..NRows(processed_df) :
                    /\ processed_df.rows[i] = original_df.rows[i]
                    /\ processed_df.index[i] = original_df.index[i]
        /\ n_removed = 0 =>
              /\ processed_df.rows = original_df.rows
              /\ processed_df.index = original_df.index

C1_Witness ==
    /\ pc = "trimmed"
    /\ n_removed = 1
    /\ NRows(original_df) = 2
    /\ NRows(processed_df) = 1
    /\ original_df.rows[1] # original_df.rows[2]

\* C2: for a 1-based inclusive range [s,e] with 1 <= s <= e <= (column count)
\* the column drop yields the original column sequence with positions s..e
\* removed: labels, dtypes and every row's cells, the others in their order.
C2_DropRemovesExactlyRange ==
    (pc = "dropped" /\ RangeInBounds) =>
        /\ processed_df.columns = Without(original_df.columns, RangeStart, RangeEnd)
        /\ processed_df.dtypes = Without(original_df.dtypes, RangeStart, RangeEnd)
        /\ \A i \in 1..NRows(processed_df) :
              processed_df.rows[i] = Without(original_df.rows[i], RangeStart, RangeEnd)

C2_Witness ==
    /\ pc = "dropped"
    /\ RangeInBounds
    /\ RangeStart = 2 /\ RangeEnd = 2
    /\ NCols(original_df) = 3
    /\ NRows(processed_df) >= 1
    /\ processed_df.columns = <<original_df.columns[1], original_df.columns[3]>>
    /\ original_df.rows[1][1] # original_df.rows[1][3]

\* The original position of the column now at position j, and the input cell
\* and label a cell and a label of the result come from.
RangeWidth ==
    IF RangeGiven /\ RangeStart <= NCols(original_df)
    THEN Min(RangeEnd, NCols(original_df)) - RangeStart + 1 ELSE 0

KeptFrom(j) == IF RangeGiven /\ j >= RangeStart THEN j + RangeWidth ELSE j

InputCell(i, j) == original_df.rows[i][KeptFrom(j)]

InputHeader(j) == original_df.columns[KeptFrom(j)]

\* The entries of the substitution map whose key equals x.
KeyOf(x) == {k \in 1..Len(sub_dict) : PyEq(sub_dict[k].k, x)}

\* Equal as values: the same value, or numbers of the same value (1 and 1.0).
SameValue(a, b) == a = b \/ PyEq(a, b)

\* A missing marker comes out as "-".
Shown(v) == IF IsMissingMarker(v) THEN Dash ELSE v

CellsOf(df) == {<<i, j>> : i \in 1..NRows(df), j \in 1..NCols(df)}

\* C3 as claimed: with a non-empty map and rounding disabled, in the returned
\* table every header whose text is a key is M[key], every cell equal to a key
\* is M[key], and every other header and cell is unchanged from the input.
C3_Original ==
    (pc = "returned" /\ sub_dict # <<>> /\ round_decimals = -1) =>
        /\ \A j \in 1..NCols(processed_df) :
              LET h == StrV(PyStr(InputHeader(j)))
              IN  IF KeyOf(h) # {}
                  THEN \E k \in KeyOf(h) : processed_df.columns[j] = sub_dict[k].v
                  ELSE PyStr(processed_df.columns[j]) = PyStr(InputHeader(j))
        /\ \A c \in CellsOf(processed_df) :
              LET x == InputCell(c[1], c[2])
                  out == processed_df.rows[c[1]][c[2]]
              IN  IF KeyOf(x) # {}
                  THEN \E k \in KeyOf(x) : SameValue(out, sub_dict[k].v)
                  ELSE SameValue(out, x)

\* C3 (amended): with a non-empty map and rounding disabled, every header whose
\* text is a key is M[key] and every other header is its own text; every cell
\* equal to a key is M[key] and every other cell keeps its value, except that a
\* missing marker (an empty cell, or the text nan, NaN or NaT), be it an
\* unmatched input cell or a mapped value, is returned as "-".
C3_SubstitutionThenMissingDash ==
    (pc = "returned" /\ sub_dict # <<>> /\ round_decimals = -1) =>
        /\ \A j \in 1..NCols(processed_df) :
              LET h == StrV(PyStr(InputHeader(j)))
              IN  IF KeyOf(h) # {}
                  THEN \E k \in KeyOf(h) : processed_df.columns[j] = sub_dict[k].v
                  ELSE processed_df.columns[j] = h
        /\ \A c \in CellsOf(processed_df) :
              LET x == InputCell(c[1], c[2])
                  out == processed_df.rows[c[1]][c[2]]
              IN  IF KeyOf(x) # {}
                  THEN \E k \in KeyOf(x) : SameValue(out, Shown(sub_dict[k].v))
                  ELSE SameValue(out, Shown(x))

C3_Witness ==
    /\ pc = "returned" /\ sub_dict = SubA /\ round_decimals = -1
    /\ InputHeader(1) = StrV(<<"A">>)
    /\ processed_df.columns[1] = StrV(<<"A", "l", "p", "h", "a">>)
    /\ \E c \in CellsOf(processed_df) :
          /\ InputCell(c[1], c[2]) = IntV(1)
          /\ processed_df.rows[c[1]][c[2]] = StrV(<<"o", "n", "e">>)
    /\ \E c \in CellsOf(processed_df) :
          /\ InputCell(c[1], c[2]) = NaN
          /\ processed_df.rows[c[1]][c[2]] = Dash
    /\ \E c \in CellsOf(processed_df) :
          /\ InputCell(c[1], c[2]) = StrV(<<"x">>)
          /\ processed_df.rows[c[1]][c[2]] = StrV(<<"x">>)

\* The table the rounding step gets.
PreRound ==
    Substitute(DropColumns(TrimRows(original_df, remove_last_n_rows), remove_cols),
               sub_dict)

IsDigit(c) == \E d \in 1..10 : Digits[d] = c

DigitVal(c) == (CHOOSE d \in 1..10 : Digits[d] = c) - 1

RECURSIVE NatVal(_)
NatVal(ds) ==
    IF ds = <<>> THEN 0
    ELSE 10 * NatVal(SubSeq(ds, 1, Len(ds) - 1)) + DigitVal(ds[Len(ds)])

\* text is the fixed-point representation of the number v to p places,
\* thousands-grouped, with a comma for the decimal point: a "-" exactly for a
\* negative v; digits in groups of three separated by commas, no leading zero;
\* for p > 0 a comma and exactly p digits; and the number written is v rounded
\* to p places (at most half a unit of the last place away).
IsFixedPoint(text, v, p) ==
    LET neg == Quarters(v) < 0
        body == IF neg /\ text # <<>> THEN Tail(text) ELSE text
        ipLen == IF p > 0 THEN Len(body) - p - 1 ELSE Len(body)
        m == NatVal(SelectSeq(body, IsDigit))
        d == 4 * m - Abs(Quarters(v)) * Pow10(p)
    IN  /\ neg => (text # <<>> /\ text[1] = "-")
        /\ ipLen >= 1
        /\ p > 0 => body[ipLen + 1] = ","
        /\ \A k \in (ipLen + 2)..Len(body) : IsDigit(body[k])
        /\ \A k \in 1..ipLen :
              IF (ipLen - k + 1) % 4 = 0 THEN body[k] = "," ELSE IsDigit(body[k])
        /\ ipLen > 1 => body[1] # "0"
        /\ Abs(d) <= 2 * Pow10(p)

C5_Original ==
    pc = "returned" =>
        /\ \A c \in CellsOf(processed_df) : processed_df.rows[c[1]][c[2]].t = "str"
        /\ processed_df.index = SubSeq(original_df.index, 1, NRows(processed_df))

\* C5 (amended): in the table process_dataframe returns the rows are in the
\* order of the input, no cell is a missing value, and every cell is a display
\* string or a number the rounding step did not format (rounding is off, or the
\* cell's column is not of a numeric dtype).
C5_TextOrUnformattedNumber ==
    pc = "returned" =>
        /\ processed_df.index = SubSeq(original_df.index, 1, NRows(processed_df))
        /\ LET pre == PreRound
           IN  \A c \in CellsOf(processed_df) :
                   LET out == processed_df.rows[c[1]][c[2]]
                   IN  /\ ~IsMissingMarker(out)
                       /\ out.t # "str" =>
                             /\ IsNumber(out)
                             /\ \/ round_decimals = -1
                                \/ ~IsNumericDtype(pre.dtypes[c[2]])

C5_Witness ==
    /\ pc = "returned" /\ round_decimals # -1
    /\ NRows(processed_df) = 2
    /\ \E c \in CellsOf(processed_df) : IsNumber(processed_df.rows[c[1]][c[2]])
    /\ \E c \in CellsOf(processed_df) : processed_df.rows[c[1]][c[2]] = Dash

\* C6: the normalization of missing markers is idempotent, and after it no
\* cell is NaN or one of the texts nan, NaN, NaT.
C6_NormalizeIdempotent ==
    pc = "returned" =>
        /\ ReplaceMissing(processed_df) = processed_df
        /\ \A c \in CellsOf(processed_df) :
              LET out == processed_df.rows[c[1]][c[2]]
              IN  /\ out.t # "nan"
                  /\ out.t = "str" => out.s \notin MissingTexts

C6_Witness ==
    /\ pc = "returned" /\ round_decimals = -1 /\ sub_dict = SubB
    /\ \E c \in CellsOf(processed_df) :
          /\ InputCell(c[1], c[2]) = NaN
          /\ processed_df.rows[c[1]][c[2]] = Dash
    /\ \E c \in CellsOf(processed_df) :
          /\ InputCell(c[1], c[2]) = IntV(1000)
          /\ processed_df.rows[c[1]][c[2]] = Dash

\* What the substitution map makes of x.
Substituted(x) ==
    IF KeyOf(x) # {} THEN sub_dict[CHOOSE k \in KeyOf(x) : TRUE].v ELSE x

\* C7: end to end with rounding disabled, trim count n <= R and a column range
\* [s,e] within bounds, the document table has one header row, the remaining
\* headers after substitution in original order, and R - n data rows of
\* C - (e - s + 1) cells, each the text of the corresponding original (or
\* substituted) cell, a missing value written "-".
C7_Original ==
    (/\ pc = "converted" /\ round_decimals = -1
     /\ n_removed <= NRows(original_df) /\ RangeInBounds) =>
        LET width == NCols(original_df) - (RangeEnd - RangeStart + 1)
        IN  /\ Len(doc.header) = width
            /\ \A j \in 1..Len(doc.header) :
                  doc.header[j] = PyStr(Substituted(StrV(PyStr(InputHeader(j)))))
            /\ Len(doc.rows) = NRows(original_df) - n_removed
            /\ \A i \in 1..Len(doc.rows) :
                  /\ Len(doc.rows[i]) = width
                  /\ \A j \in 1..Len(doc.rows[i]) :
                        doc.rows[i][j] = PyStr(Shown(Substituted(InputCell(i, j))))

\* The images of the tab-3 upload that have a companion document.
Matched(k) == InMapping(BaseName(image_files[k]))

RowsOf(name) == {r \in 1..Len(doc_rows) : doc_rows[r].image = name}

Tab3Over == run_pc = "shown" /\ button = "generate3"

AllDecodable == \A k \in 1..Len(image_files) : image_files[k].decodable

\* C8: failures are scoped per item, for spreadsheets and for images alike:
\* the item that fails gets a message, every other item of the batch is still
\* processed and appears in the output.
C8_Original ==
    /\ (data_files # <<>> /\ file_idx > Len(data_files)) =>
          \A k \in 1..Len(data_files) :
              \E o \in 1..Len(outputs) :
                  /\ outputs[o].file = k
                  /\ outputs[o].kind =
                        (IF data_files[k] = "corrupt" THEN "error" ELSE "download")
    /\ Tab3Over =>
          \A k \in 1..Len(image_files) :
              Matched(k) =>
                  IF image_files[k].decodable
                  THEN download /\ RowsOf(BaseName(image_files[k])) # {}
                  ELSE \E m \in 1..Len(messages) : messages[m].kind = "error"

\* C9: when the companion table of an image cannot be located or copied (no
\* companion of that base name, companion unreadable, companion without a
\* table) that image's table cell holds inline error text, and the document
\* is still produced.
C9_Original ==
    (Tab3Over /\ AllDecodable) =>
        /\ download
        /\ \A k \in 1..Len(image_files) :
              (\/ ~Matched(k)
               \/ table_mapping(BaseName(image_files[k])).content \in {"corrupt", "notable"})
              => \E r \in RowsOf(BaseName(image_files[k])) : doc_rows[r].right = "error"

\* C10: an image without a companion document produces a visible warning and
\* has no row in the generated document; every image with a companion gets
\* exactly one row, the image on the left and the copied table on the right.
C10_Original ==
    (/\ Tab3Over /\ AllDecodable
     /\ \A t \in 1..Len(table_files) : table_files[t].content = "table") =>
        \A k \in 1..Len(image_files) :
            LET name == BaseName(image_files[k])
            IN  IF Matched(k)
                THEN /\ Cardinality(RowsOf(name)) =
                           Cardinality({m \in 1..Len(image_files) :
                                           BaseName(image_files[m]) = name})
                     /\ \A r \in RowsOf(name) : doc_rows[r].right = "table"
                ELSE /\ RowsOf(name) = {}
                     /\ \E m \in 1..Len(messages) : messages[m] = Msg("warning", name)

\* A generation run (either tab) that has ended.
GenerateOver == run_pc = "shown" /\ button \in {"generate2", "generate3"}

\* The staging files the run of the last button press made and left behind.
LeftBehind == {f \in tmp_files : f[1] = button}

\* C11: every temporary file made to stage an image is deleted by the end of
\* the operation that made it, whether the operation succeeds or fails: after
\* a generation run has ended none of its staging files exists.
C11_Original ==
    GenerateOver => LeftBehind = {}

\* C12: in the Image Table Generator tab, with at least one image uploaded, a
\* press of the generate button ends with a document offered for download and
\* not in the error state.
C12_Original ==
    (run_pc = "shown" /\ button = "generate2" /\ tab2_images # <<>>) =>
        /\ download
        /\ \A m \in 1..Len(messages) : messages[m].kind # "error"

\* C13: the trailing-row trim and the column-range drop are independent: the
\* table the pipeline has after trimming and then dropping is the table that
\* dropping and then trimming gives, and positions s..e name the same columns
\* in the trimmed table as in the untrimmed one.
C13_TrimDropCommute ==
    pc = "dropped" =>
        /\ processed_df =
              TrimRows(DropColumns(original_df, remove_cols), remove_last_n_rows)
        /\ RangeGiven =>
              ColumnSlice(TrimRows(original_df, remove_last_n_rows), RangeStart, RangeEnd)
                  = ColumnSlice(original_df, RangeStart, RangeEnd)

C13_Witness ==
    /\ pc = "dropped"
    /\ n_removed = 1 /\ NRows(original_df) = 2 /\ NRows(processed_df) = 1
    /\ RangeInBounds /\ RangeStart = 1 /\ RangeEnd = 2
    /\ NCols(original_df) = 3 /\ NCols(processed_df) = 1
    /\ processed_df.rows[1] = <<original_df.rows[1][3]>>

\* C14 as claimed: a removal count above the number of rows makes the trim a
\* silent no-op, the table keeps all of its rows.
C14_Original ==
    (pc = "trimmed" /\ n_removed > NRows(original_df)) =>
        /\ processed_df.rows = original_df.rows
        /\ processed_df.index = original_df.index

\* C14 (amended): a removal count above the number of rows raises nothing and
\* removes every row: the table is left with no rows, its columns and their
\* dtypes as they were.
C14_TrimBeyondRowsEmpties ==
    (pc = "trimmed" /\ n_removed > NRows(original_df)) =>
        /\ processed_df.rows = <<>>
        /\ processed_df.index = <<>>
        /\ processed_df.columns = original_df.columns
        /\ processed_df.dtypes = original_df.dtypes

C14_Witness ==
    /\ pc = "trimmed"
    /\ NRows(original_df) = 2 /\ n_removed = 3
    /\ NCols(original_df) = 2
    /\ processed_df.rows = <<>>
    /\ processed_df.columns = original_df.columns

\* From the copy of line 29 to the document of line 257 the loaded table is
\* the argument of the call.
InPipeline ==
    pc \in {"copied", "trimmed", "dropped", "substituted", "rounded", "returned"}

\* C15: running the pipeline never changes its inputs: no step of a batch
\* changes the substitution map, and no step of process_dataframe (nor the
\* rendering that follows it) changes the loaded original table: rows,
\* columns, headers, dtypes and cell values stay as they were loaded.
C15_InputsUnchanged ==
    [][/\ sub_dict' = sub_dict
       /\ InPipeline => original_df' = original_df]_vars

C15_Witness ==
    /\ pc = "converted"
    /\ file_idx = 3
    /\ sub_dict = SubA /\ round_decimals = 2
    /\ n_removed = 1 /\ RangeGiven
    /\ NRows(original_df) = 2 /\ NCols(original_df) = 3
    /\ NRows(processed_df) = 1 /\ NCols(processed_df) < 3
    /\ processed_df.columns # original_df.columns
    /\ \E j \in 1..NCols(processed_df) :
          processed_df.rows[1][j] # original_df.rows[1][KeptFrom(j)]

\* The cell of img_table at the 0-based position (a, b), as the code counts.
CellAt(a, b) == img_table[a + 1][b + 1]

GridPositions == {<<a, b>> : a \in 0..(table_rows - 1), b \in 0..(table_cols - 1)}

\* The cells that hold image k.
CellsHolding(k) == {c \in GridPositions : CellAt(c[1], c[2]).picture = k}

\* C16: create_image_table_doc fills the grid in row-major order. While the
\* loops run and when the function has returned, every image k placed so far
\* is in cell (k div cols, k mod cols) and in no other cell, captioned (when
\* captions are on) with its own filename without extension, and every other
\* cell is empty; at the return min(number of images, rows * cols) images are
\* placed, so the cells from the number of images on are empty and the images
\* beyond rows * cols are left out; the only exception the loops raise is that
\* of an image that cannot be decoded, never one for an image too many.
C16_GridRowMajor ==
    /\ grid_pc \in {"loop", "returned"} =>
          /\ \A k \in 0..(img_count - 1) :
                /\ CellsHolding(k) = {<<k \div table_cols, k % table_cols>>}
                /\ CellAt(k \div table_cols, k % table_cols).caption =
                      (IF show_filename THEN image_files[k + 1].base ELSE "")
          /\ \A c \in GridPositions :
                c[1] * table_cols + c[2] >= img_count =>
                    CellAt(c[1], c[2]) = EmptyCell
    /\ grid_pc = "returned" =>
          /\ img_count = Min(Len(image_files), table_rows * table_cols)
          /\ tmp_files = {}
    /\ grid_pc = "raised" =>
          /\ img_count < Min(Len(image_files), table_rows * table_cols)
          /\ ~image_files[img_count + 1].decodable

\* A 2 x 2 grid holds two captioned images in its first row and nothing in
\* its second.
C16_Witness ==
    /\ grid_pc = "returned"
    /\ table_rows = 2 /\ table_cols = 2 /\ show_filename
    /\ Len(image_files) = 2
    /\ image_files[1].base # image_files[2].base
    /\ CellAt(0, 0) = [picture |-> 0, caption |-> image_files[1].base]
    /\ CellAt(0, 1) = [picture |-> 1, caption |-> image_files[2].base]
    /\ CellAt(1, 0) = EmptyCell /\ CellAt(1, 1) = EmptyCell

====
